---- MODULE Spec2Model ----
(***************************************************************************)
(* Model of the enum registry of olekukonko/enum: Generator[int] (the      *)
(* value/name registry with its RWMutex), the Basic handles that share a   *)
(* registry, and the JSON encoding of a registry.  Goroutines are threads  *)
(* that call the registry's operations; every operation is split at the    *)
(* points where the Go scheduler can interleave another goroutine.         *)
(***************************************************************************)
EXTENDS Integers, Sequences, FiniteSets, TLC

\* ------------------------------------------------------------------ bounds
\* Number of goroutines calling into one registry.
NumThreads == 2
\* Total number of operations the goroutines start in one behaviour.
MaxOps == 3
\* Largest raw value a caller passes to With.
MaxVal == 2

Threads == 1..NumThreads
Names == {"a", "b", "c"}
WithVals == 0..MaxVal

\* ------------------------------------------------------------------ maps
\* Go map assignment m[k] = x and delete(m, k).
EmptyMap == << >>

MapPut(m, k, x) == [y \in (DOMAIN m) \cup {k} |-> IF y = k THEN x ELSE m[y]]

MapDelete(m, k) == [y \in (DOMAIN m) \ {k} |-> m[y]]

\* Value[T]: the immutable pair (raw value, display name).
NewValue(value, name) == [value |-> value, name |-> name]

\* ------------------------------------------------------------------ increment policies
\* The incrementer field: a function value, or nil for a static registry.
NilInc == [kind |-> "nil", param |-> 0]
DefaultInc == [kind |-> "default", param |-> 0]
CustomInc(step) == [kind |-> "custom", param |-> step]
BitFlagInc == [kind |-> "bitflag", param |-> 0]
ConstantInc(c) == [kind |-> "constant", param |-> c]

\* NewCyclic coerces a modulus <= 0 to 1.
CyclicModulus(modulus) == IF modulus <= 0 THEN 1 ELSE modulus

CyclicInc(modulus) == [kind |-> "cyclic", param |-> CyclicModulus(modulus)]

\* defaultIncrementer on int: x + 1.
defaultIncrementerNoAdvance(x) == x

defaultIncrementer(x) == x + 1

\* Calling g.incrementer(x).  The raw values of the model stay far below
\* 2^63, so the 64-bit wrap of int never applies.
ApplyInc(inc, x) ==
    CASE inc.kind = "default" -> defaultIncrementer(x)
      [] inc.kind = "custom" -> x + inc.param
      [] inc.kind = "bitflag" -> x * 2
      [] inc.kind = "cyclic" -> (x + 1) % inc.param
      [] inc.kind = "constant" -> inc.param
      [] OTHER -> x

\* Calling a nil func value panics (nil dereference) before anything is assigned.
IncPanicsNilAsIdentity(inc) == FALSE

IncPanics(inc) == inc.kind = "nil"

\* ------------------------------------------------------------------ text and JSON
\* Strings are sequences of one-character strings, so that formatting and
\* parsing are computed and not assumed inverse.
Digits == <<"0", "1", "2", "3", "4", "5", "6", "7", "8", "9">>

IsDigit(c) == \E i \in 1..Len(Digits) : Digits[i] = c

DigitVal(c) == (CHOOSE i \in 1..Len(Digits) : Digits[i] = c) - 1

\* Byte order of the characters that occur in keys ('+' < '-' < digits < letters).
CharCode(c) ==
    CASE c = "+" -> 43
      [] c = "-" -> 45
      [] IsDigit(c) -> 48 + DigitVal(c)
      [] OTHER -> 120

RECURSIVE NatDigits(_)
NatDigits(n) ==
    IF n < 10 THEN <<Digits[n + 1]>>
    ELSE Append(NatDigits(n \div 10), Digits[(n % 10) + 1])

\* strconv.FormatInt(n, 10): how encoding/json writes an integer map key.
FormatInt(n) == IF n < 0 THEN <<"-">> \o NatDigits(-n) ELSE NatDigits(n)

RECURSIVE DigitsValue(_)
DigitsValue(s) ==
    IF s = << >> THEN 0
    ELSE DigitsValue(SubSeq(s, 1, Len(s) - 1)) * 10 + DigitVal(s[Len(s)])

SignStripped(s) == IF s # << >> /\ s[1] \in {"+", "-"} THEN Tail(s) ELSE s

\* strconv.ParseInt(s, 10, 64): an optional sign, then one or more digits.
ParseIntOk(s) ==
    /\ SignStripped(s) # << >>
    /\ \A i \in 1..Len(SignStripped(s)) : IsDigit(SignStripped(s)[i])

ParseIntValue(s) ==
    IF s[1] = "-" THEN 0 - DigitsValue(SignStripped(s)) ELSE DigitsValue(SignStripped(s))

\* strings.Compare(s, t) < 0
RECURSIVE LexLess(_, _)
LexLess(s, t) ==
    IF t = << >> THEN FALSE
    ELSE IF s = << >> THEN TRUE
    ELSE IF CharCode(s[1]) # CharCode(t[1]) THEN CharCode(s[1]) < CharCode(t[1])
    ELSE LexLess(Tail(s), Tail(t))

\* A JSON text: either not well formed, or an object given as its members in
\* textual order, each a key string and a string value.
JsonInvalid == [valid |-> FALSE, pairs |-> << >>]

JsonObject(pairs) == [valid |-> TRUE, pairs |-> pairs]

JsonMember(key, val) == [key |-> key, val |-> val]

\* json.Marshal of a map[int]string: keys formatted, members sorted by key string.
RECURSIVE MarshalMembers(_, _)
MarshalMembers(m, keys) ==
    IF keys = {} THEN << >>
    ELSE LET k == CHOOSE x \in keys :
                    \A y \in keys \ {x} : LexLess(FormatInt(x), FormatInt(y))
         IN  <<JsonMember(FormatInt(k), m[k])>> \o MarshalMembers(m, keys \ {k})

JsonMarshalMap(m) == JsonObject(MarshalMembers(m, DOMAIN m))

\* json.Unmarshal into an (empty, non-nil) map[int]string.  A text that is not
\* well formed is rejected before anything is stored.  A member whose key does
\* not parse as an integer is skipped and makes the call return an error; the
\* other members are stored, a later member overwriting an earlier one with
\* the same integer key.
RECURSIVE DecodeMembers(_, _)
DecodeMembers(pairs, m) ==
    IF pairs = << >> THEN m
    ELSE LET p == Head(pairs)
         IN  IF ParseIntOk(p.key)
             THEN DecodeMembers(Tail(pairs), MapPut(m, ParseIntValue(p.key), p.val))
             ELSE DecodeMembers(Tail(pairs), m)

JsonUnmarshalMap(doc, m) ==
    IF ~doc.valid THEN [m |-> m, err |-> TRUE]
    ELSE [m |-> DecodeMembers(doc.pairs, m),
          err |-> \E i \in 1..Len(doc.pairs) : ~ParseIntOk(doc.pairs[i].key)]

\* The JSON texts the goroutines pass to UnmarshalJSON.
JsonInputs ==
    { JsonInvalid,
      JsonObject(<<JsonMember(<<"1">>, "a")>>),
      JsonObject(<<JsonMember(<<"1">>, "a"), JsonMember(<<"1", "0">>, "b")>>),
      JsonObject(<<JsonMember(<<"1">>, "a"), JsonMember(<<"0", "1">>, "b")>>),
      JsonObject(<<JsonMember(<<"2">>, "c"), JsonMember(<<"x">>, "b")>>) }

\* ------------------------------------------------------------------ fixed-width integers
\* A natural number of any size is the sequence of its bytes, lowest first,
\* without high zero bytes; a value of a Go integer type of width w is a
\* sequence of exactly w/8 bytes (two's complement when the type is signed).
Zeros(k) == [i \in 1..k |-> 0]

RECURSIVE Trim(_)
Trim(n) ==
    IF n = << >> \/ n[Len(n)] # 0 THEN n ELSE Trim(SubSeq(n, 1, Len(n) - 1))

\* n * m + c for a natural n and small m and c.
RECURSIVE MulAdd(_, _, _)
MulAdd(n, m, c) ==
    IF n = << >> THEN (IF c = 0 THEN << >> ELSE <<c>>)
    ELSE <<(Head(n) * m + c) % 256>> \o MulAdd(Tail(n), m, (Head(n) * m + c) \div 256)

RECURSIVE NatBytes(_)
NatBytes(n) == IF n = 0 THEN << >> ELSE <<n % 256>> \o NatBytes(n \div 256)

\* The number a string of decimal digits denotes (n = n*10 + d, digit by digit).
RECURSIVE DecimalBytes(_)
DecimalBytes(ds) ==
    IF ds = << >> THEN << >>
    ELSE MulAdd(DecimalBytes(SubSeq(ds, 1, Len(ds) - 1)), 10, DigitVal(ds[Len(ds)]))

Pad(n, k) == n \o Zeros(k - Len(n))

\* -v in two's complement at the width of v.
TwosNeg(v) == SubSeq(MulAdd([i \in 1..Len(v) |-> 255 - v[i]], 1, 1), 1, Len(v))

\* The sign bit of a value of a signed type.
Negative(v) == v[Len(v)] >= 128

\* strconv.ParseUint(s, 10, 64): digits only, no sign; a value above 2^64 - 1
\* is a range error.
ParseUint(s) ==
    IF s = << >> \/ \E i \in 1..Len(s) : ~IsDigit(s[i])
    THEN [err |-> "syntax", val |-> Zeros(8)]
    ELSE IF Len(DecimalBytes(s)) > 8
    THEN [err |-> "range", val |-> Zeros(8)]
    ELSE [err |-> "", val |-> Pad(DecimalBytes(s), 8)]

\* n >= 2^63 and n > 2^63, for a natural n.
AtLeast2To63(n) == Len(n) > 8 \/ (Len(n) = 8 /\ n[8] >= 128)

Above2To63(n) ==
    \/ Len(n) > 8
    \/ Len(n) = 8 /\ n[8] > 128
    \/ Len(n) = 8 /\ n[8] = 128 /\ \E i \in 1..7 : n[i] # 0

\* strconv.ParseInt(s, 10, 64): an optional sign, then digits; the magnitude is
\* checked against the cutoff 2^63 (reached only by a negative numeral).
ParseInt(s) ==
    IF ~ParseIntOk(s) THEN [err |-> "syntax", val |-> Zeros(8)]
    ELSE LET neg == s[1] = "-"
             n == DecimalBytes(SignStripped(s))
         IN  IF (~neg /\ AtLeast2To63(n)) \/ (neg /\ Above2To63(n))
             THEN [err |-> "range", val |-> Zeros(8)]
             ELSE [err |-> "", val |-> IF neg THEN TwosNeg(Pad(n, 8)) ELSE Pad(n, 8)]

\* The integer types T of Value[T]; int and uint are 64 bits wide on the
\* platforms the tests run on.
SignedTypes == {"int", "int8", "int16", "int32", "int64"}

UnsignedTypes == {"uint", "uint8", "uint16", "uint32", "uint64"}

IntTypes == SignedTypes \cup UnsignedTypes

Signed(T) == T \in SignedTypes

Bits(T) ==
    CASE T \in {"int8", "uint8"} -> 8
      [] T \in {"int16", "uint16"} -> 16
      [] T \in {"int32", "uint32"} -> 32
      [] OTHER -> 64

Bytes(T) == Bits(T) \div 8

\* reflect's Convert between integer types: int64 -> T keeps the low bytes,
\* T -> int64 extends by the sign bit (signed T) or by zeros (unsigned T).
ConvertFromInt64(T, v) == SubSeq(v, 1, Bytes(T))

ConvertToInt64(T, c) ==
    c \o [i \in 1..(8 - Bytes(T)) |-> IF Signed(T) /\ Negative(c) THEN 255 ELSE 0]

\* safeCast[T](n int64): convert, convert back, and fail when the round trip
\* does not give n again.
safeCast(T, v) ==
    LET converted == ConvertFromInt64(T, v)
        roundTrip == ConvertToInt64(T, converted)
    IN  IF roundTrip # v
        THEN [err |-> "range", val |-> Zeros(Bytes(T))]
        ELSE [err |-> "", val |-> converted]

\* parseStringToValue[T](s) for an integer type T.
parseStringToValue(T, s) ==
    IF T = "string" THEN [err |-> "", val |-> s]
    ELSE IF Signed(T)
    THEN IF ParseInt(s).err # ""
         THEN [err |-> ParseInt(s).err, val |-> Zeros(Bytes(T))]
         ELSE safeCast(T, ParseInt(s).val)
    ELSE IF ParseUint(s).err # ""
         THEN [err |-> ParseUint(s).err, val |-> Zeros(Bytes(T))]
         ELSE IF Bits(T) < 64 /\ Len(Trim(ParseUint(s).val)) > Bytes(T)
         THEN [err |-> "range", val |-> Zeros(Bytes(T))]
         ELSE [err |-> "", val |-> SubSeq(ParseUint(s).val, 1, Bytes(T))]

\* ------------------------------------------------------------------ the registry
\* Generator[int]: current, incrementer, values, valueMap, nameMap.
Generator(current, incrementer, values, valueMap, nameMap) ==
    [current |-> current, incrementer |-> incrementer, values |-> values,
     valueMap |-> valueMap, nameMap |-> nameMap]

\* NewGenerator with the options WithStart(start) and WithIncrementer(inc).
NewGenerator(start, inc) == Generator(start, inc, << >>, EmptyMap, EmptyMap)

NewNumeric(start) == NewGenerator(start, DefaultInc)

NewBitFlagGenerator(start) == NewGenerator(start, BitFlagInc)

NewCyclic(modulus) == NewGenerator(0, CyclicInc(modulus))

\* The zero Generator a caller declares before unmarshalling into it
\* (var g Generator[int]): nil maps, nil incrementer.
ZeroGenerator == Generator(0, NilInc, << >>, EmptyMap, EmptyMap)

\* NewMapped ranges over the Go map in an order the runtime picks: order is
\* that order, a sequence of the names of nameToValueMap.
RECURSIVE NewMappedLoop(_, _, _)
NewMappedLoop(nameToValueMap, order, gen) ==
    IF order = << >> THEN gen
    ELSE LET name == Head(order)
             value == nameToValueMap[name]
         IN  NewMappedLoop(nameToValueMap, Tail(order),
                 [gen EXCEPT !.values = Append(@, NewValue(value, name)),
                             !.nameMap = MapPut(@, name, value),
                             !.valueMap = MapPut(@, value, name)])

NewMapped(nameToValueMap, order) ==
    NewMappedLoop(nameToValueMap, order, Generator(0, NilInc, << >>, EmptyMap, EmptyMap))

\* The iteration orders of a map: the permutations of its keys.
Orders(m) ==
    { o \in [1..Cardinality(DOMAIN m) -> DOMAIN m] :
        \A i, j \in DOMAIN o : i # j => o[i] # o[j] }

\* The name -> value tables the model passes to NewMapped.
MappedInputs ==
    { EmptyMap,
      [n \in {"a", "b"} |-> IF n = "a" THEN 1 ELSE 2],
      [n \in {"a", "b"} |-> 1] }

\* Read operations, computed on the registry under the read lock.
Name(gen, value) ==
    IF value \in DOMAIN gen.valueMap THEN <<gen.valueMap[value], TRUE>> ELSE <<"", FALSE>>

Get(gen, name) ==
    IF name \in DOMAIN gen.nameMap THEN <<gen.nameMap[name], TRUE>> ELSE <<0, FALSE>>

Values(gen) == gen.values

ValueMap(gen) == gen.valueMap

NameMap(gen) == gen.nameMap

\* Membership looked up in the entries instead of valueMap.
ContainsInEntries(gen, value) == \E i \in 1..Len(gen.values) : gen.values[i].value = value

Contains(gen, value) == value \in DOMAIN gen.valueMap

\* Names: the names of the entries, in the order of the entries.
GenNamesNewestFirst(gen) ==
    [i \in 1..Len(gen.values) |-> gen.values[Len(gen.values) + 1 - i].name]

GenNames(gen) == [i \in 1..Len(gen.values) |-> gen.values[i].name]

ValidateName(gen, name) == name \in DOMAIN gen.nameMap

\* Validate: nil exactly when Contains(value).
Validate(gen, value) == Contains(gen, value)

MarshalJSON(gen) == JsonMarshalMap(gen.valueMap)

\* UnmarshalJSON, first half: the four assignments made before decoding.
UnmarshalClear(gen) ==
    [gen EXCEPT !.valueMap = EmptyMap, !.nameMap = EmptyMap,
                !.values = << >>, !.incrementer = NilInc]

\* UnmarshalJSON, second half: json.Unmarshal(data, &g.valueMap).
UnmarshalDecode(gen, data) ==
    [gen |-> [gen EXCEPT !.valueMap = JsonUnmarshalMap(data, gen.valueMap).m],
     err |-> JsonUnmarshalMap(data, gen.valueMap).err]

\* The whole of UnmarshalJSON on a registry no other goroutine touches.
UnmarshalJSON(gen, data) == UnmarshalDecode(UnmarshalClear(gen), data)

\* ------------------------------------------------------------------ state
VARIABLES
    g,          \* the shared Generator[int]
    mu,         \* g.mu: the goroutines holding the write lock and the read lock
    pc,         \* where each goroutine is inside the operation it called
    loc,        \* the arguments and locals of that operation
    ret,        \* what each goroutine's last finished call returned
    handles,    \* the Basic values callers hold (returned by Add and With)
    ctor,       \* history: the constructor that built g
    start,      \* history: the start value g was built with
    nexts,      \* history: number of Next calls that returned a value
    writes,     \* history: the kinds of mutating calls started so far
    ops,        \* history: number of calls started so far
    committed,  \* history: g as it was when the write lock was last released
    out         \* the handle-level call a sequential caller made last, with its result

vars == <<g, mu, pc, loc, ret, handles, ctor, start, nexts, writes, ops, committed, out>>

\* Basic: a (name, value) view bound to the shared registry.
Basic(name, value) == [name |-> name, value |-> value]

Unlocked == [writers |-> {}, readers |-> {}]

\* sync.RWMutex: Lock waits until no goroutine holds the lock in either mode,
\* RLock until no writer holds it.
CanLockAlways(m) == TRUE

CanLock(m) == m.writers = {} /\ m.readers = {}

CanRLockAlways(m) == TRUE

CanRLock(m) == m.writers = {}

IdleLoc == [name |-> "", val |-> 0, h |-> Basic("", 0), doc |-> JsonInvalid]

NoRet == [op |-> "", out |-> "none", why |-> "", name |-> "", value |-> 0]

Returned(op, name, value) ==
    [op |-> op, out |-> "ok", why |-> "", name |-> name, value |-> value]

Panicked(op, why, name, value) ==
    [op |-> op, out |-> "panic", why |-> why, name |-> name, value |-> value]

Failed(op) == [op |-> op, out |-> "error", why |-> "decode", name |-> "", value |-> 0]

\* No handle-level call made yet, or its result dropped.
NoCall == [op |-> ""]

\* The registries a program can construct.
InitRegistries ==
    { [ctor |-> "NewBasic", g |-> NewNumeric(0)],
      [ctor |-> "NewGenerator", g |-> NewGenerator(10, DefaultInc)],
      [ctor |-> "WithIncrementer", g |-> NewGenerator(0, CustomInc(5))],
      [ctor |-> "ConstantIncrementer", g |-> NewGenerator(0, ConstantInc(0))],
      [ctor |-> "NewBitFlagGenerator", g |-> NewBitFlagGenerator(1)],
      [ctor |-> "NewCyclic", g |-> NewCyclic(2)],
      [ctor |-> "NewCyclic", g |-> NewCyclic(0)] }
    \cup UNION { { [ctor |-> "NewMapped", g |-> NewMapped(m, o)] : o \in Orders(m) } :
                 m \in MappedInputs }

Init ==
    /\ \E r \in InitRegistries :
          /\ g = r.g
          /\ ctor = r.ctor
          /\ start = r.g.current
          /\ committed = r.g
    /\ mu = Unlocked
    /\ pc = [t \in Threads |-> "idle"]
    /\ loc = [t \in Threads |-> IdleLoc]
    /\ ret = [t \in Threads |-> NoRet]
    /\ handles = {}
    /\ nexts = 0
    /\ writes = {}
    /\ ops = 0
    /\ out = NoCall

History == <<ctor, start>>

\* A goroutine starts a call: only a bounded number of calls is explored.
Begin(t, kind) ==
    /\ pc[t] = "idle"
    /\ ops < MaxOps
    /\ ops' = ops + 1
    /\ writes' = IF kind = "Read" THEN writes ELSE writes \cup {kind}

\* The deferred g.mu.Unlock(), running on return and on panic alike.
UnlockOnReturnOnly(t, result) ==
    /\ mu' = IF result.out = "panic" THEN mu ELSE [mu EXCEPT !.writers = @ \ {t}]
    /\ pc' = [pc EXCEPT ![t] = "idle"]
    /\ loc' = [loc EXCEPT ![t] = IdleLoc]
    /\ ret' = [ret EXCEPT ![t] = result]
    /\ committed' = g'

Unlock(t, result) ==
    /\ mu' = [mu EXCEPT !.writers = @ \ {t}]
    /\ pc' = [pc EXCEPT ![t] = "idle"]
    /\ loc' = [loc EXCEPT ![t] = IdleLoc]
    /\ ret' = [ret EXCEPT ![t] = result]
    /\ committed' = g'

\* ------------------------------------------------------------------ Next
\* The test g.incrementer == nil, made before the lock is taken.
IsStatic(gen) == gen.incrementer = NilInc

\* The duplicate-name test under the lock.
NameExistsNever(gen, name) == FALSE

NameOrValueExists(gen, name) ==
    name \in DOMAIN gen.nameMap \/ gen.current \in DOMAIN gen.valueMap

NameExists(gen, name) == name \in DOMAIN gen.nameMap

CallNext(t, name) ==
    /\ Begin(t, "Next")
    /\ pc' = [pc EXCEPT ![t] = "next_nilcheck"]
    /\ loc' = [loc EXCEPT ![t].name = name]
    /\ ret' = [ret EXCEPT ![t] = NoRet]
    /\ UNCHANGED <<g, mu, handles, History, out, nexts, committed>>

\* if g.incrementer == nil { panic }: an unsynchronised read of the field, which
\* sees whatever value the field holds when the goroutine gets to run.
NextNilCheck(t) ==
    /\ pc[t] = "next_nilcheck"
    /\ IF IsStatic(g)
       THEN /\ pc' = [pc EXCEPT ![t] = "idle"]
            /\ loc' = [loc EXCEPT ![t] = IdleLoc]
            /\ ret' = [ret EXCEPT ![t] = Panicked("Next", "static", loc[t].name, 0)]
       ELSE /\ pc' = [pc EXCEPT ![t] = "next_lock"]
            /\ UNCHANGED <<loc, ret>>
    /\ UNCHANGED <<g, mu, handles, History, out, nexts, writes, ops, committed>>

NextLock(t) ==
    /\ pc[t] = "next_lock"
    /\ CanLock(mu)
    /\ mu' = [mu EXCEPT !.writers = @ \cup {t}]
    /\ pc' = [pc EXCEPT ![t] = "next_check"]
    /\ UNCHANGED <<g, loc, ret, handles, History, out, nexts, writes, ops, committed>>

\* if _, exists := g.nameMap[name]; exists { panic }; val := g.current
NextCapture(t) ==
    /\ pc[t] = "next_check"
    /\ IF NameExists(g, loc[t].name)
       THEN /\ g' = g
            /\ Unlock(t, Panicked("Next", "dupname", loc[t].name, 0))
       ELSE /\ loc' = [loc EXCEPT ![t].val = g.current]
            /\ pc' = [pc EXCEPT ![t] = "next_advance"]
            /\ UNCHANGED <<g, mu, ret, committed>>
    /\ UNCHANGED <<handles, History, out, nexts, writes, ops>>

\* g.current = g.incrementer(g.current); g.values = append(g.values, entry)
NextAdvance(t) ==
    /\ pc[t] = "next_advance"
    /\ IF IncPanics(g.incrementer)
       THEN /\ g' = g
            /\ Unlock(t, Panicked("Next", "nilcall", loc[t].name, 0))
       ELSE /\ g' = [g EXCEPT !.current = ApplyInc(g.incrementer, g.current),
                              !.values = Append(@, NewValue(loc[t].val, loc[t].name))]
            /\ pc' = [pc EXCEPT ![t] = "next_insert"]
            /\ UNCHANGED <<mu, loc, ret, committed>>
    /\ UNCHANGED <<handles, History, out, nexts, writes, ops>>

\* g.valueMap[val] = name; g.nameMap[name] = val; return entry
NextInsert(t) ==
    /\ pc[t] = "next_insert"
    /\ g' = [g EXCEPT !.valueMap = MapPut(@, loc[t].val, loc[t].name),
                      !.nameMap = MapPut(@, loc[t].name, loc[t].val)]
    /\ Unlock(t, Returned("Next", loc[t].name, loc[t].val))
    /\ nexts' = nexts + 1
    /\ handles' = IF ctor = "NewBasic"
                  THEN handles \cup {Basic(loc[t].name, loc[t].val)}
                  ELSE handles
    /\ UNCHANGED <<History, out, writes, ops>>

\* ------------------------------------------------------------------ Basic.With
\* if existing, ok := e.meta.valueMap[v]; ok { panic }
ValueTakenNever(gen, v) == FALSE

ValueTaken(gen, v) == v \in DOMAIN gen.valueMap

\* The receiver's pair is still the one recorded for its value.
StillRecordedNever(gen, e) == FALSE

StillRecorded(gen, e) ==
    e.value \in DOMAIN gen.valueMap /\ gen.valueMap[e.value] = e.name

CallWith(t, e, v) ==
    /\ Begin(t, "With")
    /\ CanLock(mu)
    /\ mu' = [mu EXCEPT !.writers = @ \cup {t}]
    /\ pc' = [pc EXCEPT ![t] = "with_check"]
    /\ loc' = [loc EXCEPT ![t].h = e, ![t].val = v]
    /\ ret' = [ret EXCEPT ![t] = NoRet]
    /\ UNCHANGED <<g, handles, History, out, nexts, committed>>

WithCheckOwnValueAllowed(t) ==
    /\ pc[t] = "with_check"
    /\ IF ValueTaken(g, loc[t].val) /\ g.valueMap[loc[t].val] # loc[t].h.name
       THEN /\ g' = g
            /\ Unlock(t, Panicked("With", "dupvalue", loc[t].h.name, loc[t].val))
       ELSE /\ g' = IF StillRecorded(g, loc[t].h)
                    THEN [g EXCEPT !.valueMap = MapDelete(@, loc[t].h.value),
                                   !.nameMap = MapDelete(@, loc[t].h.name)]
                    ELSE g
            /\ pc' = [pc EXCEPT ![t] = "with_insert"]
            /\ UNCHANGED <<mu, loc, ret, committed>>
    /\ UNCHANGED <<handles, History, out, nexts, writes, ops>>

WithCheck(t) ==
    /\ pc[t] = "with_check"
    /\ IF ValueTaken(g, loc[t].val)
       THEN /\ g' = g
            /\ Unlock(t, Panicked("With", "dupvalue", loc[t].h.name, loc[t].val))
       ELSE /\ g' = IF StillRecorded(g, loc[t].h)
                    THEN [g EXCEPT !.valueMap = MapDelete(@, loc[t].h.value),
                                   !.nameMap = MapDelete(@, loc[t].h.name)]
                    ELSE g
            /\ pc' = [pc EXCEPT ![t] = "with_insert"]
            /\ UNCHANGED <<mu, loc, ret, committed>>
    /\ UNCHANGED <<handles, History, out, nexts, writes, ops>>

WithInsertAdvances(t) ==
    /\ pc[t] = "with_insert"
    /\ g' = [g EXCEPT !.valueMap = MapPut(@, loc[t].val, loc[t].h.name),
                      !.nameMap = MapPut(@, loc[t].h.name, loc[t].val),
                      !.values = Append(@, NewValue(loc[t].val, loc[t].h.name)),
                      !.current = loc[t].val + 1]
    /\ Unlock(t, Returned("With", loc[t].h.name, loc[t].val))
    /\ handles' = handles \cup {Basic(loc[t].h.name, loc[t].val)}
    /\ UNCHANGED <<History, out, nexts, writes, ops>>

WithInsert(t) ==
    /\ pc[t] = "with_insert"
    /\ g' = [g EXCEPT !.valueMap = MapPut(@, loc[t].val, loc[t].h.name),
                      !.nameMap = MapPut(@, loc[t].h.name, loc[t].val),
                      !.values = Append(@, NewValue(loc[t].val, loc[t].h.name))]
    /\ Unlock(t, Returned("With", loc[t].h.name, loc[t].val))
    /\ handles' = handles \cup {Basic(loc[t].h.name, loc[t].val)}
    /\ UNCHANGED <<History, out, nexts, writes, ops>>

\* Basic.Values(): one Basic per entry of the registry, in the entries' order.
BasicValuesRegisteredOnly(gen) ==
    LET recorded(x) == x.value \in DOMAIN gen.valueMap /\ gen.valueMap[x.value] = x.name
        kept == SelectSeq(gen.values, recorded)
    IN  [i \in 1..Len(kept) |-> Basic(kept[i].name, kept[i].value)]

BasicValues(gen) ==
    [i \in 1..Len(Values(gen)) |-> Basic(Values(gen)[i].name, Values(gen)[i].value)]

\* ------------------------------------------------------------------ UnmarshalJSON
CallUnmarshal(t, data) ==
    /\ Begin(t, "Unmarshal")
    /\ CanLock(mu)
    /\ mu' = [mu EXCEPT !.writers = @ \cup {t}]
    /\ pc' = [pc EXCEPT ![t] = "unmarshal_clear"]
    /\ loc' = [loc EXCEPT ![t].doc = data]
    /\ ret' = [ret EXCEPT ![t] = NoRet]
    /\ UNCHANGED <<g, handles, History, out, nexts, committed>>

UnmarshalClearStep(t) ==
    /\ pc[t] = "unmarshal_clear"
    /\ g' = UnmarshalClear(g)
    /\ pc' = [pc EXCEPT ![t] = "unmarshal_decode"]
    /\ UNCHANGED <<mu, loc, ret, handles, History, out, nexts, writes, ops, committed>>

UnmarshalDecodeStep(t) ==
    /\ pc[t] = "unmarshal_decode"
    /\ g' = UnmarshalDecode(g, loc[t].doc).gen
    /\ Unlock(t, IF UnmarshalDecode(g, loc[t].doc).err
                 THEN Failed("Unmarshal")
                 ELSE Returned("Unmarshal", "", 0))
    /\ UNCHANGED <<handles, History, out, nexts, writes, ops>>

\* ------------------------------------------------------------------ reads
\* Name, Get, Values, ValueMap, NameMap, Contains, Names, Parse, ValidateName,
\* ValidValues and MarshalJSON: RLock, compute on g, RUnlock.
CallRead(t) ==
    /\ Begin(t, "Read")
    /\ CanRLock(mu)
    /\ mu' = [mu EXCEPT !.readers = @ \cup {t}]
    /\ pc' = [pc EXCEPT ![t] = "read"]
    /\ ret' = [ret EXCEPT ![t] = NoRet]
    /\ UNCHANGED <<g, loc, handles, History, out, nexts, committed>>

ReadReturn(t) ==
    /\ pc[t] = "read"
    /\ mu' = [mu EXCEPT !.readers = @ \ {t}]
    /\ pc' = [pc EXCEPT ![t] = "idle"]
    /\ ret' = [ret EXCEPT ![t] = Returned("Read", "", 0)]
    /\ UNCHANGED <<g, loc, handles, History, out, nexts, writes, ops, committed>>

\* ------------------------------------------------------------------ handle-level operations
\* Go's int (the raw value of a Generator[int] entry) against the model's
\* integers: a 64-bit value is brought to an integer when it is small; the
\* model's registries hold small keys only, so a larger value is in none.
RECURSIVE BytesNat(_)
BytesNat(n) == IF n = << >> THEN 0 ELSE n[1] + 256 * BytesNat(Tail(n))

Magnitude(v) == Trim(IF Negative(v) THEN TwosNeg(v) ELSE v)

Small(v) == Len(Magnitude(v)) <= 2

IntOf(v) == IF Negative(v) THEN 0 - BytesNat(Magnitude(v)) ELSE BytesNat(Magnitude(v))

Int64(n) == IF n < 0 THEN TwosNeg(Pad(NatBytes(0 - n), 8)) ELSE Pad(NatBytes(n), 8)

\* e.meta.Name(val) for a 64-bit val.
NameOfWideFound(gen, v) == <<"", TRUE>>

NameOfWide(gen, v) == IF Small(v) THEN Name(gen, IntOf(v)) ELSE <<"", FALSE>>

\* The characters of a Go string.  The texts of the model are single
\* characters, except the ones listed.
Chars(s) ==
    CASE s = "" -> << >>
      [] s = "+1" -> <<"+", "1">>
      [] s = "01" -> <<"0", "1">>
      [] s = "-1" -> <<"-", "1">>
      [] s = "1.5" -> <<"1", ".", "5">>
      [] s = "1x" -> <<"1", "x">>
      [] s = "99999999999999999999" -> [i \in 1..20 |-> "9"]
      [] OTHER -> <<s>>

\* Parse with the two lookups in the other order.
ParseLiteralFirst(gen, s) ==
    LET p == parseStringToValue("int", Chars(s))
    IN  IF p.err = "" /\ NameOfWide(gen, p.val)[2]
        THEN [err |-> FALSE, value |-> NewValue(IntOf(p.val), NameOfWide(gen, p.val)[1])]
        ELSE IF s \in DOMAIN gen.nameMap
        THEN [err |-> FALSE, value |-> NewValue(gen.nameMap[s], s)]
        ELSE [err |-> TRUE, value |-> NewValue(0, "")]

\* Generator.Parse: the name lookup, then parseStringToValue[int] and the
\* value lookup.
Parse(gen, s) ==
    IF s \in DOMAIN gen.nameMap
    THEN [err |-> FALSE, value |-> NewValue(gen.nameMap[s], s)]
    ELSE LET p == parseStringToValue("int", Chars(s))
         IN  IF p.err # "" THEN [err |-> TRUE, value |-> NewValue(0, "")]
             ELSE IF NameOfWide(gen, p.val)[2]
             THEN [err |-> FALSE,
                   value |-> NewValue(IntOf(p.val), NameOfWide(gen, p.val)[1])]
             ELSE [err |-> TRUE, value |-> NewValue(0, "")]

\* A Basic as a target of UnmarshalJSON and Scan: its fields, and whether its
\* meta is set.
Target(name, value, meta) == [name |-> name, value |-> value, meta |-> meta]

\* JSON texts holding one scalar: a number literal, null, a string, or a text
\* that is not JSON.
JsonNumber(text) == [kind |-> "number", text |-> text]

JsonNull == [kind |-> "null", text |-> << >>]

JsonString(text) == [kind |-> "string", text |-> text]

JsonGarbage == [kind |-> "invalid", text |-> << >>]

\* The JSON number grammar without exponent: -? (0 | [1-9][0-9]*) (. [0-9]+)?
JsonNumberOk(text) ==
    LET body == IF text # << >> /\ text[1] = "-" THEN Tail(text) ELSE text
        dots == {i \in 1..Len(body) : body[i] = "."}
        cut == IF dots = {} THEN Len(body) + 1
               ELSE CHOOSE i \in dots : \A j \in dots : i <= j
        whole == SubSeq(body, 1, cut - 1)
        frac == SubSeq(body, cut + 1, Len(body))
    IN  /\ whole # << >>
        /\ \A i \in 1..Len(whole) : IsDigit(whole[i])
        /\ Len(whole) > 1 => whole[1] # "0"
        /\ \A i \in 1..Len(frac) : IsDigit(frac[i])
        /\ dots # {} => frac # << >>

\* json.Unmarshal(data, &val) with val an int holding 0: null leaves val as it
\* is and is no error; a number must be an integer literal in int's range.
JsonUnmarshalInt(data) ==
    CASE data.kind = "null" -> [err |-> FALSE, val |-> Int64(0)]
      [] data.kind = "number" /\ JsonNumberOk(data.text) ->
            [err |-> ParseInt(data.text).err # "", val |-> ParseInt(data.text).val]
      [] OTHER -> [err |-> TRUE, val |-> Int64(0)]

\* Basic.MarshalJSON: json.Marshal(e.value).
BasicMarshalAsString(b) == JsonString(FormatInt(b.value))

BasicMarshalJSON(b) == JsonNumber(FormatInt(b.value))

\* Basic.UnmarshalJSON.
BasicUnmarshalJSON(b, gen, data) ==
    IF ~b.meta THEN [err |-> TRUE, after |-> b]
    ELSE IF JsonUnmarshalInt(data).err THEN [err |-> TRUE, after |-> b]
    ELSE IF ~NameOfWide(gen, JsonUnmarshalInt(data).val)[2] THEN [err |-> TRUE, after |-> b]
    ELSE [err |-> FALSE,
          after |-> [b EXCEPT !.value = IntOf(JsonUnmarshalInt(data).val),
                              !.name = NameOfWide(gen, JsonUnmarshalInt(data).val)[1]]]

\* The scalars a database driver hands to Scan.  A float64 is given by its
\* integer part and by whether it has a fractional part.
ScanNil == [kind |-> "nil"]

ScanInt64(v) == [kind |-> "int64", val |-> v]

ScanFloat64(whole, frac) == [kind |-> "float64", val |-> whole, frac |-> frac]

ScanBytes(text) == [kind |-> "bytes", text |-> text]

ScanString(text) == [kind |-> "string", text |-> text]

ScanBool == [kind |-> "bool"]

\* if value == nil { e.value = 0; e.name = "" }
ScanNullKeeps(b) == b

ScanNull(b) == [b EXCEPT !.value = 0, !.name = ""]

\* Basic.Scan: the conversion of the scalar to int, then the lookup of its name.
BasicScan(b, gen, sc) ==
    IF ~b.meta THEN [err |-> TRUE, after |-> b]
    ELSE IF sc.kind = "nil" THEN [err |-> FALSE, after |-> ScanNull(b)]
    ELSE LET conv == CASE sc.kind \in {"int64", "float64"} -> [err |-> "", val |-> sc.val]
                       [] sc.kind \in {"bytes", "string"} -> ParseInt(sc.text)
                       [] OTHER -> [err |-> "type", val |-> Int64(0)]
         IN  IF conv.err # "" THEN [err |-> TRUE, after |-> b]
             ELSE IF ~NameOfWide(gen, conv.val)[2] THEN [err |-> TRUE, after |-> b]
             ELSE [err |-> FALSE,
                   after |-> [b EXCEPT !.value = IntOf(conv.val),
                                       !.name = NameOfWide(gen, conv.val)[1]]]

\* safeCast[T](n float64) for an integer T: the truncated value is converted,
\* and the round trip back to float64 differs when a fraction was cut off or
\* the integer part does not fit T.
safeCastFloat(T, whole, frac) ==
    IF frac THEN [err |-> "range", val |-> Zeros(Bytes(T))] ELSE safeCast(T, whole)

\* Value[T].Scan on the Value x = (value, name).
ValueScan(T, x, sc) ==
    IF sc.kind = "nil" THEN [err |-> FALSE, after |-> x]
    ELSE LET conv == CASE sc.kind = "int64" -> safeCast(T, sc.val)
                       [] sc.kind = "float64" -> safeCastFloat(T, sc.val, sc.frac)
                       [] sc.kind \in {"bytes", "string"} -> parseStringToValue(T, sc.text)
                       [] OTHER -> [err |-> "type", val |-> Zeros(Bytes(T))]
         IN  IF conv.err # "" THEN [err |-> TRUE, after |-> x]
             ELSE [err |-> FALSE, after |-> [x EXCEPT !.value = conv.val]]

\* Value[T].Value(): an integer raw value of either signedness becomes an
\* int64 (reflect's Int(), or int64(Uint())); a string is handed over as it is.
ValueValueZeroExtends(T, v) == IF T = "string" THEN ScanString(v) ELSE ScanInt64(Pad(v, 8))

ValueValue(T, v) == IF T = "string" THEN ScanString(v) ELSE ScanInt64(ConvertToInt64(T, v))

\* Decimal numerals at the edges of the integer types.
Numerals ==
    { <<"1", "2", "7">>,
      <<"1", "2", "8">>,
      <<"-", "1", "2", "8">>,
      <<"-", "1", "2", "9">>,
      <<"2", "5", "5">>,
      <<"2", "5", "6">>,
      <<"3", "2", "7", "6", "7">>,
      <<"3", "2", "7", "6", "8">>,
      <<"-", "3", "2", "7", "6", "8">>,
      <<"-", "3", "2", "7", "6", "9">>,
      <<"6", "5", "5", "3", "5">>,
      <<"6", "5", "5", "3", "6">>,
      <<"2", "1", "4", "7", "4", "8", "3", "6", "4", "7">>,
      <<"2", "1", "4", "7", "4", "8", "3", "6", "4", "8">>,
      <<"-", "2", "1", "4", "7", "4", "8", "3", "6", "4", "8">>,
      <<"-", "2", "1", "4", "7", "4", "8", "3", "6", "4", "9">>,
      <<"4", "2", "9", "4", "9", "6", "7", "2", "9", "5">>,
      <<"4", "2", "9", "4", "9", "6", "7", "2", "9", "6">>,
      <<"9", "2", "2", "3", "3", "7", "2", "0", "3", "6", "8", "5", "4", "7", "7", "5", "8", "0", "7">>,
      <<"9", "2", "2", "3", "3", "7", "2", "0", "3", "6", "8", "5", "4", "7", "7", "5", "8", "0", "8">>,
      <<"-", "9", "2", "2", "3", "3", "7", "2", "0", "3", "6", "8", "5", "4", "7", "7", "5", "8", "0", "8">>,
      <<"-", "9", "2", "2", "3", "3", "7", "2", "0", "3", "6", "8", "5", "4", "7", "7", "5", "8", "0", "9">>,
      <<"1", "8", "4", "4", "6", "7", "4", "4", "0", "7", "3", "7", "0", "9", "5", "5", "1", "6", "1", "5">>,
      <<"1", "8", "4", "4", "6", "7", "4", "4", "0", "7", "3", "7", "0", "9", "5", "5", "1", "6", "1", "6">>,
      <<"0">>,
      <<"1">>,
      <<"-", "1">> }

\* ------------------------------------------------------------------ specification
Next ==
    \E t \in Threads :
        \/ \E name \in Names : CallNext(t, name)
        \/ NextNilCheck(t)
        \/ NextLock(t)
        \/ NextCapture(t)
        \/ NextAdvance(t)
        \/ NextInsert(t)
        \/ \E e \in handles : \E v \in WithVals : CallWith(t, e, v)
        \/ WithCheck(t)
        \/ WithInsert(t)
        \/ \E data \in JsonInputs : CallUnmarshal(t, data)
        \/ UnmarshalClearStep(t)
        \/ UnmarshalDecodeStep(t)
        \/ CallRead(t)
        \/ ReadReturn(t)

Spec == Init /\ [][Next]_vars

\* The steps a goroutine takes inside a call it has started.  The scheduler
\* runs every runnable goroutine again and again, and sync.RWMutex hands the
\* lock to a waiting writer before goroutines arriving later (starvation mode).
Internal(t) ==
    \/ NextNilCheck(t)
    \/ NextLock(t)
    \/ NextCapture(t)
    \/ NextAdvance(t)
    \/ NextInsert(t)
    \/ WithCheck(t)
    \/ WithInsert(t)
    \/ UnmarshalClearStep(t)
    \/ UnmarshalDecodeStep(t)
    \/ ReadReturn(t)

Fairness == \A t \in Threads : WF_vars(Internal(t)) /\ SF_vars(NextLock(t))

SpecFair == Spec /\ Fairness

\* ------------------------------------------------------------------ a sequential caller
\* One goroutine alone: the lock is never contended, so each call is one step.
\* The caller holds the result of one handle-level call at a time (out).
HandleNames == {"a", "b", "1"}

ParseInputs == HandleNames \cup {"0", "2", "+1", "01", "1x", "", "99999999999999999999"}

\* The Basics a caller can hold: the zero Basic with and without meta, the
\* registered pairs, and a pair that is not registered.
Receivers(gen) ==
    { Target("", 0, m) : m \in BOOLEAN }
    \cup { Target(gen.valueMap[v], v, TRUE) : v \in DOMAIN gen.valueMap }
    \cup { Target("z", 7, TRUE) }

BasicJsonInputs ==
    { JsonNull, JsonGarbage, JsonString(<<"1">>) }
    \cup { JsonNumber(Chars(s)) : s \in {"0", "1", "7", "01", "1.5", "99999999999999999999"} }

ScanInputs ==
    { ScanNil, ScanBool }
    \cup { ScanInt64(Int64(n)) : n \in -1..(MaxVal + 1) }
    \cup { ScanFloat64(Int64(n), f) : n \in 0..1, f \in BOOLEAN }
    \cup { ScanBytes(Chars(s)) : s \in {"1", "1x"} }
    \cup { ScanString(Chars(s)) : s \in {"0", "1", "+1", "01", "-1", "1.5", "", "99999999999999999999"} }

\* The Values a caller scans into: the zero Value[T] and one holding 3.
ValueReceivers(T) ==
    { NewValue(Zeros(Bytes(T)), ""), NewValue(ConvertFromInt64(T, Int64(3)), "a") }

ValueScanInputs ==
    { ScanNil, ScanBool, ScanInt64(Int64(1)), ScanInt64(Int64(0 - 1)), ScanInt64(Int64(500)),
      ScanFloat64(Int64(1), FALSE), ScanFloat64(Int64(1), TRUE),
      ScanBytes(Chars("1")), ScanString(Chars("2")), ScanString(Chars("1x")) }

\* The Values a caller persists: the raw values at the edges of T, and texts.
ValueHolders(T) ==
    IF T = "string"
    THEN { NewValue(Chars(s), "a") : s \in {"", "a", "1", "1x"} }
    ELSE { NewValue(parseStringToValue(T, s).val, "a") :
             s \in {n \in Numerals : parseStringToValue(T, n).err = ""} }

Int64Inputs == { ParseInt(s).val : s \in {n \in Numerals : ParseInt(n).err = ""} }

Accessors == {"Values", "ValueMap", "NameMap"}

\* What an accessor returns: the content, in storage of its own (make + copy)
\* or in the registry's storage.
ReturnField(data) == [data |-> data, backing |-> "registry", written |-> FALSE]

MakeCopy(data) == [data |-> data, backing |-> "fresh", written |-> FALSE]

Field(gen, op) ==
    CASE op = "Values" -> gen.values
      [] op = "ValueMap" -> gen.valueMap
      [] OTHER -> gen.nameMap

WithField(gen, op, data) ==
    CASE op = "Values" -> [gen EXCEPT !.values = data]
      [] op = "ValueMap" -> [gen EXCEPT !.valueMap = data]
      [] OTHER -> [gen EXCEPT !.nameMap = data]

\* The caller writes into what an accessor returned.
Written(op, data) ==
    CASE op = "Values" -> [i \in 1..Len(data) |-> IF i = 1 THEN NewValue(99, "zz") ELSE data[i]]
      [] op = "ValueMap" -> MapPut(data, 99, "zz")
      [] OTHER -> MapPut(data, "zz", 99)

\* The whole of Next on a registry no other goroutine touches.
NextPanics(gen, name) == IsStatic(gen) \/ NameExists(gen, name) \/ IncPanics(gen.incrementer)

NextSeq(gen, name) ==
    [gen EXCEPT !.current = ApplyInc(gen.incrementer, gen.current),
                !.values = Append(@, NewValue(gen.current, name)),
                !.valueMap = MapPut(@, gen.current, name),
                !.nameMap = MapPut(@, name, gen.current)]

Concurrency == <<mu, pc, loc, ret, ops>>

DoNext(name) ==
    /\ g' = IF NextPanics(g, name) THEN g ELSE NextSeq(g, name)
    /\ committed' = g'
    /\ nexts' = IF NextPanics(g, name) THEN nexts ELSE nexts + 1
    /\ writes' = writes \cup {"Next"}
    /\ handles' = IF ctor = "NewBasic" /\ ~NextPanics(g, name)
                  THEN handles \cup {Basic(name, g.current)}
                  ELSE handles
    /\ out' = IF out.op \in Accessors /\ out.view.backing = "registry"
              THEN [out EXCEPT !.view.data = Field(g', out.op)]
              ELSE out
    /\ UNCHANGED <<Concurrency, ctor, start>>

Quiet == <<g, handles, History, nexts, writes, committed, Concurrency>>

DoParse(s) ==
    /\ out = NoCall
    /\ out' = [op |-> "Parse", arg |-> s, res |-> Parse(g, s)]
    /\ UNCHANGED Quiet

DoValues ==
    /\ out = NoCall
    /\ out' = [op |-> "Values", view |-> MakeCopy(Values(g))]
    /\ UNCHANGED Quiet

DoValueMap ==
    /\ out = NoCall
    /\ out' = [op |-> "ValueMap", view |-> MakeCopy(ValueMap(g))]
    /\ UNCHANGED Quiet

DoNameMap ==
    /\ out = NoCall
    /\ out' = [op |-> "NameMap", view |-> MakeCopy(NameMap(g))]
    /\ UNCHANGED Quiet

WriteView ==
    /\ out.op \in Accessors
    /\ ~out.view.written
    /\ out' = [out EXCEPT !.view.data = Written(out.op, @), !.view.written = TRUE]
    /\ g' = IF out.view.backing = "registry"
            THEN WithField(g, out.op, Written(out.op, out.view.data))
            ELSE g
    /\ UNCHANGED <<handles, History, nexts, writes, committed, Concurrency>>

DoBasicUnmarshal(b, data) ==
    /\ out = NoCall
    /\ out' = [op |-> "Basic.UnmarshalJSON", before |-> b, data |-> data,
               res |-> BasicUnmarshalJSON(b, g, data)]
    /\ UNCHANGED Quiet

DoBasicScan(b, sc) ==
    /\ out = NoCall
    /\ out' = [op |-> "Basic.Scan", before |-> b, scalar |-> sc, res |-> BasicScan(b, g, sc)]
    /\ UNCHANGED Quiet

DoValueScan(T, x, sc) ==
    /\ out = NoCall
    /\ out' = [op |-> "Value.Scan", type |-> T, before |-> x, scalar |-> sc,
               res |-> ValueScan(T, x, sc)]
    /\ UNCHANGED Quiet

DoParseString(T, s) ==
    /\ out = NoCall
    /\ out' = [op |-> "parseStringToValue", type |-> T, arg |-> s,
               res |-> parseStringToValue(T, s)]
    /\ UNCHANGED Quiet

DoValueValue(T, x) ==
    /\ out = NoCall
    /\ out' = [op |-> "Value.Value", type |-> T, before |-> x, res |-> ValueValue(T, x.value)]
    /\ UNCHANGED Quiet

DoSafeCast(T, v) ==
    /\ out = NoCall
    /\ out' = [op |-> "safeCast", type |-> T, arg |-> v, res |-> safeCast(T, v)]
    /\ UNCHANGED Quiet

\* Basic.With on a registry no other goroutine touches.
WithSeq(gen, e, v) ==
    LET cleared == IF StillRecorded(gen, e)
                   THEN [gen EXCEPT !.valueMap = MapDelete(@, e.value),
                                    !.nameMap = MapDelete(@, e.name)]
                   ELSE gen
    IN  [cleared EXCEPT !.valueMap = MapPut(@, v, e.name),
                        !.nameMap = MapPut(@, e.name, v),
                        !.values = Append(@, NewValue(v, e.name))]

\* Basic.FromValue(v): e.Add(v.String()).With(v.Get()).  A panic of With leaves
\* what Add has done.
FromValue(gen, v) ==
    IF NextPanics(gen, v.name)
    THEN [panic |-> "Add", gen |-> gen, basic |-> Basic("", 0)]
    ELSE LET added == NextSeq(gen, v.name)
             e == Basic(v.name, gen.current)
         IN  IF ValueTaken(added, v.value)
             THEN [panic |-> "With", gen |-> added, basic |-> e]
             ELSE [panic |-> "", gen |-> WithSeq(added, e, v.value),
                   basic |-> Basic(v.name, v.value)]

DoFromValue(v) ==
    /\ out = NoCall
    /\ ctor = "NewBasic"
    /\ g' = FromValue(g, v).gen
    /\ committed' = g'
    /\ nexts' = IF FromValue(g, v).panic = "Add" THEN nexts ELSE nexts + 1
    /\ writes' = writes \cup {"Next", "With"}
    /\ handles' = IF FromValue(g, v).panic = "Add" THEN handles
                  ELSE handles \cup {Basic(v.name, g.current), FromValue(g, v).basic}
    /\ out' = [op |-> "FromValue", arg |-> v, res |-> FromValue(g, v)]
    /\ UNCHANGED <<Concurrency, ctor, start>>

\* Basic.Validate: e.meta.Name(e.value); with meta nil the call dereferences nil.
BasicValidate(b, gen) ==
    IF ~b.meta THEN "panic" ELSE IF Name(gen, b.value)[2] THEN "ok" ELSE "error"

DoValidate(value) ==
    /\ out = NoCall
    /\ out' = [op |-> "Validate", arg |-> value,
               res |-> IF Validate(g, value) THEN "ok" ELSE "error"]
    /\ UNCHANGED Quiet

DoValidateName(name) ==
    /\ out = NoCall
    /\ out' = [op |-> "ValidateName", arg |-> name,
               res |-> IF ValidateName(g, name) THEN "ok" ELSE "error"]
    /\ UNCHANGED Quiet

DoBasicValidate(b) ==
    /\ out = NoCall
    /\ out' = [op |-> "Basic.Validate", arg |-> b, res |-> BasicValidate(b, g)]
    /\ UNCHANGED Quiet

\* The caller drops the result it holds.
Forget ==
    /\ out # NoCall
    /\ out' = NoCall
    /\ UNCHANGED Quiet

NextHandle ==
    \/ \E name \in HandleNames : DoNext(name)
    \/ \E s \in ParseInputs : DoParse(s)
    \/ DoValues
    \/ DoValueMap
    \/ DoNameMap
    \/ WriteView
    \/ \E b \in Receivers(g) :
          \E data \in BasicJsonInputs \cup {BasicMarshalJSON(r) : r \in Receivers(g)} :
             DoBasicUnmarshal(b, data)
    \/ \E b \in Receivers(g) : \E sc \in ScanInputs : DoBasicScan(b, sc)
    \/ \E name \in HandleNames : \E value \in WithVals : DoFromValue(NewValue(value, name))
    \/ \E value \in WithVals \cup {MaxVal + 1} : DoValidate(value)
    \/ \E name \in ParseInputs : DoValidateName(name)
    \/ \E b \in Receivers(g) : DoBasicValidate(b)
    \/ Forget

\* The conversions, which read no registry.
NextConv ==
    \/ \E T \in IntTypes : \E x \in ValueReceivers(T) : \E sc \in ValueScanInputs :
          DoValueScan(T, x, sc)
    \/ \E T \in IntTypes : \E s \in Numerals \cup {Chars("1x")} : DoParseString(T, s)
    \/ \E T \in IntTypes : \E v \in Int64Inputs : DoSafeCast(T, v)
    \/ \E T \in IntTypes \cup {"string"} : \E x \in ValueHolders(T) : DoValueValue(T, x)
    \/ Forget

SpecHandle == Init /\ [][NextHandle]_vars

SpecConv == Init /\ [][NextConv]_vars

\* ------------------------------------------------------------------ handles of two names
\* b := NewBasic(); b.Add("a"); b.Add("b"): the registry and the two handles
\* that goroutines then reassign with With.
InitWith ==
    /\ g = NextSeq(NextSeq(NewNumeric(0), "a"), "b")
    /\ ctor = "NewBasic"
    /\ start = 0
    /\ committed = g
    /\ mu = Unlocked
    /\ pc = [t \in Threads |-> "idle"]
    /\ loc = [t \in Threads |-> IdleLoc]
    /\ ret = [t \in Threads |-> NoRet]
    /\ handles = {Basic("a", 0), Basic("b", 1)}
    /\ nexts = 2
    /\ writes = {"Next"}
    /\ ops = 0
    /\ out = NoCall

NextWith ==
    \E t \in Threads :
        \/ \E e \in handles : \E v \in WithVals : CallWith(t, e, v)
        \/ WithCheck(t)
        \/ WithInsert(t)

SpecWith == InitWith /\ [][NextWith]_vars

\* ------------------------------------------------------------------ typed sequences
\* Generator[T] for the other element types: an integer T of width w holds its
\* raw values as w/8 bytes, a Generator[string] as the code points of the
\* string.  One caller calls Next with a name it has not used before.
MaxNexts == 10

RuneA == 65

RuneZ == 90

\* v + 1 and v << 1 at the width of v: the carry out of the top byte is lost.
AddOne(v) == SubSeq(MulAdd(v, 1, 1) \o Zeros(Len(v)), 1, Len(v))

ShiftLeft(v) == SubSeq(MulAdd(v, 2, 0) \o Zeros(Len(v)), 1, Len(v))

\* defaultIncrementer on a string: the loop from the last rune to the first.
\* Below 'Z' the rune is incremented and the loop returns; otherwise the rune
\* becomes 'A' and the loop goes on; past the first rune an 'A' is prepended.
RECURSIVE IncRunes(_, _)
IncRunes(runes, i) ==
    IF i = 0 THEN <<RuneA>> \o runes
    ELSE IF runes[i] < RuneZ THEN [runes EXCEPT ![i] = @ + 1]
    ELSE IncRunes([runes EXCEPT ![i] = RuneA], i - 1)

\* The last rune alone, without the carry to the left.
defaultIncrementerLastRune(v) ==
    IF Len(v) = 0 THEN <<RuneA>>
    ELSE [v EXCEPT ![Len(v)] = IF @ < RuneZ THEN @ + 1 ELSE RuneA]

defaultIncrementerString(v) == IF Len(v) = 0 THEN <<RuneA>> ELSE IncRunes(v, Len(v))

\* The closure NewCyclic builds: (i + 1) % modulus on int.
cyclicNoWrap(modulus, i) == AddOne(i)

cyclicIncrementer(modulus, i) == Int64((IntOf(i) + 1) % modulus)

\* The closure NewBitFlagGenerator builds: v << 1 at the width of T.
bitFlagRotates(v) ==
    SubSeq(MulAdd(v, 2, IF v[Len(v)] >= 128 THEN 1 ELSE 0) \o Zeros(Len(v)), 1, Len(v))

bitFlagIncrementer(v) == ShiftLeft(v)

\* g.incrementer(x) for a Generator[T].
ApplyTyped(inc, T, x) ==
    CASE inc.kind = "default" /\ T = "string" -> defaultIncrementerString(x)
      [] inc.kind = "default" -> AddOne(x)
      [] inc.kind = "bitflag" /\ T = "string" -> x
      [] inc.kind = "bitflag" -> bitFlagIncrementer(x)
      [] inc.kind = "cyclic" -> cyclicIncrementer(inc.param, x)
      [] OTHER -> x

\* *new(T): the zero value of T.
ZeroOf(T) == IF T = "string" THEN << >> ELSE Zeros(Bytes(T))

\* The constructor calls of the typed registries, with their argument.
Construct(name, T, arg, current, inc) ==
    [ctor |-> [name |-> name, type |-> T, arg |-> arg],
     g |-> NewGenerator(current, inc)]

TypedRegistries ==
    { Construct("NewCyclic", "int", <<m>>, Int64(0), CyclicInc(m)) : m \in -1..3 }
    \cup { Construct("NewBitFlagGenerator", T, <<1>>, Pad(<<1>>, Bytes(T)), BitFlagInc) :
             T \in {"int8", "uint8", "int16", "uint", "int"} }
    \cup { Construct("NewGenerator", T, << >>, ZeroOf(T), DefaultInc) :
             T \in {"string", "int8", "int"} }
    \cup { Construct("WithStart", "string", s, s, DefaultInc) :
             s \in { <<89>>, <<65, 90>>, <<90, 89>>, <<90, 90>>, <<65>> } }
    \cup { Construct("WithStart", "int8", <<126>>, <<126>>, DefaultInc) }

InitTyped ==
    /\ \E r \in TypedRegistries :
          /\ g = r.g
          /\ ctor = r.ctor
          /\ start = r.g.current
          /\ committed = r.g
    /\ mu = Unlocked
    /\ pc = [t \in Threads |-> "idle"]
    /\ loc = [t \in Threads |-> IdleLoc]
    /\ ret = [t \in Threads |-> NoRet]
    /\ handles = {}
    /\ nexts = 0
    /\ writes = {}
    /\ ops = 0
    /\ out = NoCall

\* The name of the caller's k-th call: no name is used twice.
FreshName(k) == <<"n">> \o FormatInt(k)

\* The whole of Next on a Generator[T] no other goroutine touches.
NextTyped(gen, T, name) ==
    [gen EXCEPT !.current = ApplyTyped(gen.incrementer, T, gen.current),
                !.values = Append(@, NewValue(gen.current, name)),
                !.valueMap = MapPut(@, gen.current, name),
                !.nameMap = MapPut(@, name, gen.current)]

DoNextTyped ==
    /\ nexts < MaxNexts
    /\ LET name == FreshName(nexts)
           panics == IsStatic(g) \/ NameExists(g, name)
       IN  /\ g' = IF panics THEN g ELSE NextTyped(g, ctor.type, name)
           /\ committed' = g'
           /\ nexts' = IF panics THEN nexts ELSE nexts + 1
           /\ out' = IF panics THEN [op |-> "Next", panic |-> TRUE]
                     ELSE [op |-> "Next", panic |-> FALSE, res |-> NewValue(g.current, name)]
    /\ writes' = writes \cup {"Next"}
    /\ UNCHANGED <<Concurrency, handles, ctor, start>>

SpecTyped == InitTyped /\ [][DoNextTyped]_vars

\* ------------------------------------------------------------------ properties
WritePcs ==
    {"next_check", "next_advance", "next_insert", "with_check", "with_insert",
     "unmarshal_clear", "unmarshal_decode"}

NextPcs == {"next_nilcheck", "next_lock", "next_check", "next_advance", "next_insert"}

\* No goroutine is inside a mutating critical section.
Quiescent == \A t \in Threads : pc[t] \notin WritePcs

\* valueMap and nameMap are exact inverses of each other.
InverseMaps(gen) ==
    /\ \A v \in DOMAIN gen.valueMap :
          /\ gen.valueMap[v] \in DOMAIN gen.nameMap
          /\ gen.nameMap[gen.valueMap[v]] = v
    /\ \A n \in DOMAIN gen.nameMap :
          /\ gen.nameMap[n] \in DOMAIN gen.valueMap
          /\ gen.valueMap[gen.nameMap[n]] = n

\* C1: on a registry that only Next has written to (sequential or concurrent
\* calls, under any increment policy), valueMap and nameMap are exact inverses
\* whenever no call is in the middle of its update.
C1_InverseMapsAfterNext ==
    (ctor # "NewMapped" /\ writes \subseteq {"Next"} /\ Quiescent) => InverseMaps(g)

C3_ConcurrentNextLosesNothing ==
    (g.incrementer = DefaultInc /\ writes \subseteq {"Next"} /\ Quiescent)
    => (/\ Len(g.values) = nexts
        /\ Cardinality(DOMAIN g.valueMap) = nexts
        /\ Cardinality(DOMAIN g.nameMap) = nexts
        /\ \A i, j \in 1..Len(g.values) :
              i # j => g.values[i].value # g.values[j].value
        /\ \A t \in Threads : ret[t].out = "panic" => ret[t].why = "dupname")

C3_Witness ==
    /\ g.incrementer = DefaultInc /\ writes = {"Next"} /\ Quiescent
    /\ nexts = 3
    /\ \A t \in Threads : ret[t].op = "Next" /\ ret[t].out = "ok"

\* C4: at most one goroutine is inside a mutating critical section, no reader
\* is inside its critical section together with a writer, and what a reader
\* sees is the registry as the last writer left it on releasing the lock.
C4_LockDiscipline ==
    /\ Cardinality({t \in Threads : pc[t] \in WritePcs}) <= 1
    /\ (\E t \in Threads : pc[t] \in WritePcs) => (\A t \in Threads : pc[t] # "read")
    /\ (\E t \in Threads : pc[t] = "read") => g = committed

C4_Witness ==
    /\ \A t \in Threads : pc[t] = "read"
    /\ Len(g.values) > 0
    /\ DOMAIN g.valueMap # {}

\* C5: while the registry is static (incrementer nil: built by NewMapped, or
\* loaded by UnmarshalJSON), no step of a Next call changes the registry, a
\* Next that finds it static on entry panics at once, and no Next returns a
\* value.
C5_NextOnStaticPanics ==
    [][\A t \in Threads :
          (/\ pc[t] \in NextPcs
           /\ pc'[t] # pc[t]
           /\ g.incrementer.kind = "nil")
          => (/\ g' = g
              /\ pc'[t] # "next_insert"
              /\ pc[t] = "next_nilcheck" => pc'[t] = "idle"
              /\ pc'[t] = "idle" => ret'[t].out = "panic")]_vars

C5_Witness ==
    \E t, u \in Threads :
        /\ ctor # "NewMapped"
        /\ ret[t].op = "Next" /\ ret[t].out = "panic" /\ ret[t].why = "static"
        /\ ret[u].op = "Unmarshal" /\ ret[u].out = "ok"
        /\ DOMAIN g.valueMap # {}

\* C6: on a registry built with start value s and the default increment, the
\* Next that returns after k earlier ones returned has raw value s + k and the
\* name passed to it, and at its return Name(s + k) finds that name and
\* Get(name) finds s + k.
C6_SequentialValues ==
    [][\A t \in Threads :
          (/\ pc[t] = "next_insert"
           /\ pc'[t] = "idle"
           /\ ctor \in {"NewBasic", "NewGenerator"})
          => (/\ ret'[t] = Returned("Next", loc[t].name, start + nexts)
              /\ Name(g', start + nexts) = <<loc[t].name, TRUE>>
              /\ Get(g', loc[t].name) = <<start + nexts, TRUE>>)]_vars

C6_Witness ==
    /\ start = 10
    /\ \E t \in Threads : ret[t] = Returned("Next", "c", 12)
    /\ Name(g, 11) = <<"b", TRUE>>
    /\ Get(g, "a") = <<10, TRUE>>

\* C7: for a registry populated by Next calls or by NewMapped, unmarshalling
\* the output of MarshalJSON into a fresh Generator succeeds and gives a
\* registry whose ValueMap() and NameMap() equal the original's.
C7_RoundTrip ==
    (writes \subseteq {"Next"} /\ Quiescent)
    => LET r == UnmarshalJSON(ZeroGenerator, MarshalJSON(g))
       IN  /\ ~r.err
           /\ ValueMap(r.gen) = ValueMap(g)
           /\ NameMap(r.gen) = NameMap(g)

\* The mapping a JSON object denotes when all its keys are integers.
RECURSIVE DocMapping(_)
DocMapping(pairs) ==
    IF pairs = << >> THEN EmptyMap
    ELSE MapPut(DocMapping(SubSeq(pairs, 1, Len(pairs) - 1)),
                ParseIntValue(pairs[Len(pairs)].key), pairs[Len(pairs)].val)

\* C8: when UnmarshalJSON returns without error, ValueMap() is the mapping M of
\* the text, NameMap() is the inverse of M, and entries holds one entry per
\* pair of M.
C8_UnmarshalReplacesAll ==
    [][\A t \in Threads :
          (/\ pc[t] = "unmarshal_decode"
           /\ pc'[t] = "idle"
           /\ ret'[t].out = "ok")
          => (/\ ValueMap(g') = DocMapping(loc[t].doc.pairs)
              /\ InverseMaps(g')
              /\ \A v \in DOMAIN g'.valueMap : ValidateName(g', g'.valueMap[v])
              /\ Len(Values(g')) = Cardinality(DOMAIN g'.valueMap)
              /\ \A i \in 1..Len(g'.values) :
                    Name(g', g'.values[i].value) = <<g'.values[i].name, TRUE>>)]_vars

\* C9: when UnmarshalJSON returns an error, the registry (valueMap, nameMap,
\* entries, increment policy) is what it was when the call took the lock.
C9_FailedUnmarshalChangesNothing ==
    [][\A t \in Threads :
          (/\ pc[t] = "unmarshal_decode"
           /\ pc'[t] = "idle"
           /\ ret'[t].out = "error")
          => g' = committed]_vars

\* C10: With(v) on a Basic whose name is not the one v is registered to panics,
\* and the step in which it fails leaves valueMap, nameMap and entries as they
\* were: v stays mapped to its owner.
C10_WithDuplicateValueRejected ==
    [][\A t \in Threads :
          (/\ pc[t] = "with_check"
           /\ pc'[t] # pc[t]
           /\ loc[t].val \in DOMAIN g.valueMap
           /\ g.valueMap[loc[t].val] # loc[t].h.name)
          => (/\ g' = g
              /\ pc'[t] = "idle"
              /\ ret'[t] = Panicked("With", "dupvalue", loc[t].h.name, loc[t].val)
              /\ mu'.writers = {})]_vars

C10_Witness ==
    \E t \in Threads :
        /\ ret[t].op = "With" /\ ret[t].why = "dupvalue"
        /\ ret[t].value \in DOMAIN g.valueMap
        /\ g.valueMap[ret[t].value] # ret[t].name
        /\ Get(g, ret[t].name)[2]

\* C11: With(v) on a Basic (old, name) whose pair was the one recorded for old
\* when the call took the lock, with v unregistered, returns with Name(old) not
\* found, Name(v) = name and Get(name) = v, and hands back the Basic (name, v)
\* of the same registry.
C11_WithMovesMapping ==
    [][\A t \in Threads :
          (/\ pc[t] = "with_insert"
           /\ pc'[t] = "idle"
           /\ Name(committed, loc[t].h.value) = <<loc[t].h.name, TRUE>>
           /\ loc[t].val \notin DOMAIN committed.valueMap)
          => (/\ Name(g', loc[t].h.value) = <<"", FALSE>>
              /\ Name(g', loc[t].val) = <<loc[t].h.name, TRUE>>
              /\ Get(g', loc[t].h.name) = <<loc[t].val, TRUE>>
              /\ ret'[t] = Returned("With", loc[t].h.name, loc[t].val)
              /\ Basic(loc[t].h.name, loc[t].val) \in handles')]_vars

C11_Witness ==
    \E t \in Threads : \E h \in handles :
        /\ ret[t].op = "With" /\ ret[t].out = "ok"
        /\ h.name = ret[t].name /\ h.value # ret[t].value
        /\ Len(g.values) = 2
        /\ Name(g, h.value) = <<"", FALSE>>
        /\ Name(g, ret[t].value) = <<h.name, TRUE>>

\* C12: on a registry that only Add and With calls have written to (With on a
\* handle already reassigned by an earlier With, and Add after a With,
\* included), valueMap and nameMap are exact inverses whenever no call is in
\* the middle of its update.
C12_InverseMapsAfterAddWith ==
    (ctor = "NewBasic" /\ writes \subseteq {"Next", "With"} /\ Quiescent)
    => InverseMaps(g)

\* The pair of a Basic is the one the registry records for its value.
Registered(gen, b) == b.value \in DOMAIN gen.valueMap /\ gen.valueMap[b.value] = b.name

\* A short text that is a decimal integer (optional sign, digits).
ShortInteger(text) == ParseIntOk(text) /\ Len(text) <= 4

\* C13: Parse(s) returns (nameMap[s], s) when s is a registered name, also when
\* s is the literal of a registered value; when s is no name it returns
\* (v, valueMap[v]) for the registered value v that s is the literal of; and it
\* returns an error when s is neither.
C13_ParseNameFirst ==
    [][(out.op = "" /\ out'.op = "Parse")
       => LET s == out'.arg
              r == out'.res
              byValue == /\ ShortInteger(Chars(s))
                         /\ ParseIntValue(Chars(s)) \in DOMAIN g.valueMap
          IN  /\ s \in DOMAIN g.nameMap
                    => r = [err |-> FALSE, value |-> NewValue(g.nameMap[s], s)]
              /\ (s \notin DOMAIN g.nameMap /\ byValue)
                    => r = [err |-> FALSE,
                            value |-> NewValue(ParseIntValue(Chars(s)),
                                               g.valueMap[ParseIntValue(Chars(s))])]
              /\ (s \notin DOMAIN g.nameMap /\ ~byValue) => r.err]_vars

C13_Witness ==
    /\ out.op = "Parse" /\ out.arg = "1"
    /\ "1" \in DOMAIN g.nameMap /\ g.nameMap["1"] # 1
    /\ 1 \in DOMAIN g.valueMap /\ g.valueMap[1] # "1"
    /\ out.res = [err |-> FALSE, value |-> NewValue(g.nameMap["1"], "1")]

\* C14: a write by the caller into what Values(), ValueMap() or NameMap()
\* returned leaves the registry as it was, and a change of the registry leaves
\* what was returned earlier as it was.
C14_AccessorsReturnCopies ==
    [][/\ (out.op \in Accessors /\ out'.op = out.op /\ out'.view.written /\ ~out.view.written)
            => g' = g
       /\ (out.op \in Accessors /\ g' # g) => out' = out]_vars

C14_Witness ==
    /\ out.op = "Values" /\ out.view.written
    /\ Len(out.view.data) = 1 /\ Len(g.values) = 2
    /\ g.values[1] # out.view.data[1]

\* C15: for every Basic b whose pair is registered, MarshalJSON gives the
\* decimal literal of b's value and nothing else, and UnmarshalJSON of that
\* text into a Basic bound to the same registry succeeds with b's value and
\* b's name.
C15_BasicJsonRoundTrip ==
    [][(out.op = "" /\ out'.op = "Basic.UnmarshalJSON")
       => \A b \in Receivers(g) :
             Registered(g, b)
             => /\ BasicMarshalJSON(b).kind = "number"
                /\ ShortInteger(BasicMarshalJSON(b).text)
                /\ ParseIntValue(BasicMarshalJSON(b).text) = b.value
                /\ (out'.data = BasicMarshalJSON(b) /\ out'.before.meta)
                      => /\ ~out'.res.err
                         /\ out'.res.after.value = b.value
                         /\ out'.res.after.name = b.name]_vars

C15_Witness ==
    /\ out.op = "Basic.UnmarshalJSON"
    /\ out.before = Target("", 0, TRUE)
    /\ Registered(g, Target("a", 1, TRUE))
    /\ out.data = BasicMarshalJSON(Target("a", 1, TRUE))
    /\ out.res = [err |-> FALSE, after |-> Target("a", 1, TRUE)]

\* C16: Basic.UnmarshalJSON returns an error and leaves the target's value and
\* name as they were when meta is nil, when the text is not a JSON integer, or
\* when the integer is not registered; and it never changes the registry.
C16_BasicUnmarshalRejects ==
    [][(out.op = "" /\ out'.op = "Basic.UnmarshalJSON")
       => LET d == out'.data
              integer == d.kind = "number" /\ JsonNumberOk(d.text) /\ ParseIntOk(d.text)
              registered == /\ integer
                            /\ ShortInteger(d.text)
                            /\ ParseIntValue(d.text) \in DOMAIN g.valueMap
          IN  /\ g' = g
              /\ (~out'.before.meta \/ ~integer \/ ~registered)
                    => (out'.res.err /\ out'.res.after = out'.before)]_vars

\* The integer a scalar handed to Scan denotes: an int64, the integer part of
\* a float64, or a text that is a decimal integer.
DenotesInteger(sc) ==
    \/ sc.kind \in {"int64", "float64"}
    \/ sc.kind \in {"bytes", "string"} /\ ParseIntOk(sc.text)

DenotesSmall(sc) ==
    \/ sc.kind \in {"int64", "float64"} /\ Small(sc.val)
    \/ sc.kind \in {"bytes", "string"} /\ ShortInteger(sc.text)

DenotedInteger(sc) ==
    IF sc.kind \in {"int64", "float64"} THEN IntOf(sc.val) ELSE ParseIntValue(sc.text)

C18_ScanNullAlways ==
    [][(out.op = "" /\ out'.op = "Basic.Scan" /\ out'.scalar.kind = "nil")
       => out'.res = [err |-> FALSE,
                      after |-> [out'.before EXCEPT !.value = 0, !.name = ""]]]_vars

\* C18: on a Basic whose meta is set, Basic.Scan(nil) succeeds and sets the
\* Basic to value 0 and the empty name, whatever value and name it held; on a
\* Basic whose meta is nil it returns an error and changes nothing.
C18_ScanNullWithMeta ==
    [][(out.op = "" /\ out'.op = "Basic.Scan" /\ out'.scalar.kind = "nil")
       => /\ g' = g
          /\ out'.before.meta
                => out'.res = [err |-> FALSE,
                               after |-> [out'.before EXCEPT !.value = 0, !.name = ""]]
          /\ ~out'.before.meta
                => out'.res = [err |-> TRUE, after |-> out'.before]]_vars

C18_Witness ==
    /\ out.op = "Basic.Scan" /\ out.scalar = ScanNil
    /\ out.before.meta /\ out.before.value # 0 /\ out.before.name # ""
    /\ Registered(g, out.before)
    /\ out.res = [err |-> FALSE, after |-> Target("", 0, TRUE)]

\* C19: Value.Scan(nil) returns no error and leaves the Value with the zero
\* value of T, whatever raw value it held before.
C19_ValueScanNullResets ==
    [][(out.op = "" /\ out'.op = "Value.Scan" /\ out'.scalar.kind = "nil")
       => /\ ~out'.res.err
          /\ out'.res.after.value = Zeros(Bytes(out'.type))]_vars

\* The integer a decimal numeral (an optional minus, then digits) denotes, and
\* the integer a value of type T is: a sign and a magnitude.
NumeralInteger(s) ==
    [neg |-> s[1] = "-" /\ DecimalBytes(SignStripped(s)) # << >>,
     mag |-> DecimalBytes(SignStripped(s))]

TypedInteger(T, v) ==
    IF Signed(T) /\ Negative(v)
    THEN [neg |-> TRUE, mag |-> Trim(TwosNeg(v))]
    ELSE [neg |-> FALSE, mag |-> Trim(v)]

\* -2^(w-1) <= n <= 2^(w-1) - 1 for a signed T of width w, 0 <= n <= 2^w - 1
\* for an unsigned one.
InRange(T, n) ==
    LET k == Bytes(T)
    IN  IF Signed(T)
        THEN \/ Len(n.mag) < k
             \/ Len(n.mag) = k /\ n.mag[k] < 128
             \/ n.neg /\ Len(n.mag) = k /\ n.mag[k] = 128 /\ \A i \in 1..(k - 1) : n.mag[i] = 0
        ELSE ~n.neg /\ Len(n.mag) <= k

\* C20: parseStringToValue[T] of a decimal numeral denoting n, and safeCast[T]
\* of the int64 n, succeed with the value n when n is in T's range and return
\* an error when it is not.
C20_IntegerRange ==
    [][(out.op = "" /\ out'.op \in {"parseStringToValue", "safeCast"})
       => LET T == out'.type
              n == IF out'.op = "safeCast" THEN TypedInteger("int64", out'.arg)
                   ELSE NumeralInteger(out'.arg)
              numeral == out'.op = "safeCast" \/ ParseIntOk(out'.arg)
          IN  numeral
              => /\ (out'.res.err = "") <=> InRange(T, n)
                 /\ out'.res.err = "" => TypedInteger(T, out'.res.val) = n]_vars

\* C21: a registry built by NewCyclic(m) hands out k mod m on the Next that
\* follows k successful ones when m > 0 (0, 1, 2, 0 for m = 3), and 0 on every
\* Next when m <= 0.
C21_CyclicValues ==
    [][(ctor.name = "NewCyclic" /\ nexts' = nexts + 1)
       => /\ ~out'.panic
          /\ out'.res.value =
                Int64(IF ctor.arg[1] > 0 THEN nexts % ctor.arg[1] ELSE 0)]_vars

C21_Witness ==
    /\ ctor.name = "NewCyclic" /\ ctor.arg = <<3>>
    /\ nexts = 4
    /\ [i \in 1..4 |-> IntOf(g.values[i].value)] = <<0, 1, 2, 0>>
    /\ out.res.value = Int64(0)

\* 2^k modulo 2^(8n), as the n bytes of a value of that width.
PowerOfTwo(k, n) ==
    [i \in 1..n |-> IF k < 8 * n /\ i = (k \div 8) + 1 THEN 2 ^ (k % 8) ELSE 0]

\* C22: a registry built by NewBitFlagGenerator(1) over an integer type of
\* width w hands out 2^k modulo 2^w on the Next that follows k successful ones
\* (1, 2, 4, ...), so every value handed out has at most one bit set.
C22_BitFlagValues ==
    [][(ctor.name = "NewBitFlagGenerator" /\ nexts' = nexts + 1)
       => LET v == out'.res.value
          IN  /\ v = PowerOfTwo(nexts, Bytes(ctor.type))
              /\ Cardinality({i \in 1..Len(v) : v[i] # 0}) <= 1
              /\ \A i \in 1..Len(v) : v[i] \in {0, 1, 2, 4, 8, 16, 32, 64, 128}]_vars

C22_Witness ==
    /\ ctor.name = "NewBitFlagGenerator" /\ ctor.type = "int8"
    /\ nexts = 10
    /\ g.values[3].value = <<4>>
    /\ g.values[8].value = <<128>>
    /\ g.values[9].value = <<0>>
    /\ out.res.value = <<0>>

\* An upper-case string read as a numeral in bijective base 26 (A = 1 .. Z = 26).
RECURSIVE Odometer(_)
Odometer(s) ==
    IF s = << >> THEN 0
    ELSE Odometer(SubSeq(s, 1, Len(s) - 1)) * 26 + (s[Len(s)] - RuneA + 1)

UpperCase(s) == \A i \in 1..Len(s) : s[i] \in RuneA..RuneZ

\* C23: the default increment of a string is the successor in the upper-case
\* odometer ("Z" -> "AA", "AZ" -> "BA", "ZZ" -> "AAA"); a string registry
\* started at "Y" hands out "Y", "Z", "AA", and a string registry with the
\* default increment never hands out the same string twice.
C23_TextOdometer ==
    [][(ctor.type = "string" /\ nexts' = nexts + 1)
       => /\ defaultIncrementerString(<<90>>) = <<65, 65>>
          /\ defaultIncrementerString(<<65, 90>>) = <<66, 65>>
          /\ defaultIncrementerString(<<90, 90>>) = <<65, 65, 65>>
          /\ UpperCase(g.current)
                => /\ UpperCase(g'.current)
                   /\ Odometer(g'.current) = Odometer(g.current) + 1
          /\ (ctor.arg = <<89>> /\ nexts < 3)
                => out'.res.value = <<(<<89>>), (<<90>>), (<<65, 65>>)>>[nexts + 1]
          /\ \A i, j \in 1..Len(g'.values) :
                i # j => g'.values[i].value # g'.values[j].value]_vars

C23_Witness ==
    /\ ctor.type = "string" /\ ctor.arg = <<89>>
    /\ nexts = 3
    /\ [i \in 1..3 |-> g.values[i].value] = <<(<<89>>), (<<90>>), (<<65, 65>>)>>
    /\ g.current = <<65, 66>>

\* C24: the first three Next calls on NewGenerator[string]() without options
\* hand out "A", "B", "C".
C24_StringDefaultsStartAtA ==
    [][(/\ ctor.name = "NewGenerator" /\ ctor.type = "string" /\ ctor.arg = << >>
        /\ nexts' = nexts + 1 /\ nexts < 3)
       => out'.res.value = <<RuneA + nexts>>]_vars

\* C25: on a registry built by NewGenerator[int] that only Next calls have
\* written to, calls passing a name already used included, every Next call
\* returns a value and leaves one entry: no call panics.
C25_SameNameNextAllReturn ==
    (ctor = "NewGenerator" /\ writes \subseteq {"Next"})
    => /\ \A t \in Threads : ret[t].op = "Next" => ret[t].out = "ok"
       /\ Quiescent => Len(Values(g)) = nexts

\* f^i(x) for the increment function f of a registry.
RECURSIVE Iterate(_, _, _)
Iterate(inc, x, i) == IF i = 0 THEN x ELSE ApplyInc(inc, Iterate(inc, x, i - 1))

\* C27: on a sequential registry with start s and increment f that only Next
\* calls have written to, the call that takes the lock after i others have
\* taken a value takes f^i(s) and returns it, whatever the interleaving of the
\* callers, and once no call is in progress the i-th entry (0-based) of
\* Values() has raw value f^i(s).
C27_ValuesInLockOrder ==
    [][(ctor # "NewMapped" /\ writes' \subseteq {"Next"})
       => /\ \A t \in Threads :
                (pc[t] = "next_check" /\ pc'[t] = "next_advance")
                => loc'[t].val = Iterate(g.incrementer, start, Len(g.values))
          /\ \A t \in Threads :
                (pc[t] = "next_insert" /\ pc'[t] = "idle")
                => /\ ret'[t] = Returned("Next", loc[t].name,
                                         Iterate(g.incrementer, start, nexts))
                   /\ Len(Values(g')) = nexts + 1
          /\ (\A t \in Threads : pc'[t] \notin WritePcs)
                => \A i \in 1..Len(Values(g')) :
                      Values(g')[i].value = Iterate(g'.incrementer, start, i - 1)]_vars

C27_Witness ==
    /\ ctor = "WithIncrementer" /\ writes = {"Next"}
    /\ \A t \in Threads : pc[t] = "idle"
    /\ [i \in 1..Len(g.values) |-> g.values[i].value] = <<0, 5, 10>>
    /\ ret[1] = Returned("Next", "b", 5)
    /\ ret[2] = Returned("Next", "a", 10)

\* C26: under fair scheduling every call a goroutine has started returns or
\* panics; in no reachable state are all the started calls blocked; a call
\* takes the lock only while it holds it in neither mode; and a call that
\* panics (inside its critical section too) leaves the lock released, so the
\* calls after it complete.
C26_EveryCallCompletes ==
    /\ \A t \in Threads : (pc[t] # "idle") ~> (pc[t] = "idle")
    /\ []((\E t \in Threads : pc[t] # "idle") => ENABLED (\E t \in Threads : Internal(t)))
    /\ [][\A t \in Threads :
             /\ (t \in mu'.writers \cup mu'.readers /\ t \notin mu.writers \cup mu.readers)
                   => (mu.writers = {} /\ (t \in mu'.writers => mu.readers = {}))
             /\ (ret'[t] # ret[t] /\ ret'[t].out = "panic")
                   => t \notin mu'.writers \cup mu'.readers]_vars

C26_Witness ==
    /\ \A t \in Threads : pc[t] = "idle"
    /\ ops = MaxOps
    /\ mu = Unlocked
    /\ ret[1] = Panicked("Next", "dupname", "a", 0)
    /\ ret[2] = Returned("Next", "b", 1)
    /\ GenNames(g) = <<"a", "b">>

\* C28: FromValue(v) on a Basic registry in which neither v's name nor v's value
\* is registered returns the Basic (v.name, v.value) and leaves v.value and
\* v.name mapped to each other; it panics only when the value or the name is
\* registered already.
C28_FromValueRegisters ==
    [][(out.op = "" /\ out'.op = "FromValue")
       => LET v == out'.arg
              r == out'.res
          IN  /\ (v.name \notin DOMAIN g.nameMap /\ v.value \notin DOMAIN g.valueMap)
                    => /\ r.panic = ""
                       /\ r.basic = Basic(v.name, v.value)
                       /\ Name(g', v.value) = <<v.name, TRUE>>
                       /\ Get(g', v.name) = <<v.value, TRUE>>
              /\ r.panic # ""
                    => (v.name \in DOMAIN g.nameMap \/ v.value \in DOMAIN g.valueMap)]_vars

\* C29: Validate(value) returns nil exactly when value is a key of valueMap at
\* the call (the answer of Contains), ValidateName(name) exactly when name is a
\* key of nameMap, and Validate() of a Basic with a registry exactly when the
\* Basic's value is a key of the registry's valueMap.
C29_ValidateIsMembership ==
    [][(out.op = "" /\ out'.op \in {"Validate", "ValidateName", "Basic.Validate"})
       => /\ out'.op = "Validate"
                => /\ (out'.res = "ok") <=> (out'.arg \in DOMAIN g.valueMap)
                   /\ (out'.res = "ok") <=> Contains(g, out'.arg)
          /\ out'.op = "ValidateName"
                => ((out'.res = "ok") <=> (out'.arg \in DOMAIN g.nameMap))
          /\ (out'.op = "Basic.Validate" /\ out'.arg.meta)
                => /\ out'.res \in {"ok", "error"}
                   /\ (out'.res = "ok") <=> (out'.arg.value \in DOMAIN g.valueMap)
          /\ g' = g]_vars

C29_Witness ==
    /\ out.op = "Validate" /\ out.res = "error"
    /\ \E i \in 1..Len(g.values) : g.values[i].value = out.arg
    /\ DOMAIN g.valueMap # {}
    /\ out.arg \notin DOMAIN g.valueMap

\* s is an initial segment of t.
IsPrefix(s, t) == Len(s) <= Len(t) /\ SubSeq(t, 1, Len(s)) = s

\* C30: in a registry that UnmarshalJSON has not been called on, no step removes
\* or reorders entries: Values() and Names() before a step are prefixes of
\* Values() and Names() after it, and a Next or With that returns has appended
\* exactly one entry, the pair it returns, to the entries it found.
C30_EntriesAppendOnly ==
    [][("Unmarshal" \notin writes')
       => /\ IsPrefix(Values(g), Values(g'))
          /\ IsPrefix(GenNames(g), GenNames(g'))
          /\ \A t \in Threads :
                (pc[t] \in {"next_insert", "with_insert"} /\ pc'[t] = "idle")
                => /\ Values(g') =
                         Append(Values(committed), NewValue(ret'[t].value, ret'[t].name))
                   /\ GenNames(g') = Append(GenNames(committed), ret'[t].name)]_vars

C30_Witness ==
    /\ "Unmarshal" \notin writes
    /\ \A t \in Threads : pc[t] = "idle"
    /\ Values(g) = <<NewValue(0, "a"), NewValue(2, "a"), NewValue(1, "b")>>
    /\ GenNames(g) = <<"a", "a", "b">>

C32_WithAppendsEntry ==
    [][\A t \in Threads :
          (/\ pc[t] = "with_insert"
           /\ pc'[t] = "idle"
           /\ Name(committed, loc[t].h.value) = <<loc[t].h.name, TRUE>>)
          => LET old == loc[t].h.value
                 name == loc[t].h.name
                 v == loc[t].val
             IN  /\ Len(Values(g')) = Len(Values(committed)) + 1
                 /\ Values(g') = Append(Values(committed), NewValue(v, name))
                 /\ BasicValues(g') = Append(BasicValues(committed), Basic(name, v))
                 /\ ~Contains(g', old)
                 /\ Contains(g', v)
                 /\ ValueMap(g')[v] = name
                 /\ NameMap(g')[name] = v]_vars

C32_Witness ==
    \E t \in Threads : \E h \in handles :
        /\ ret[t] = Returned("With", h.name, 2)
        /\ h.value = 0
        /\ BasicValues(g) = <<Basic(h.name, 0), Basic(h.name, 2)>>
        /\ ~Contains(g, 0)
        /\ ValueMap(g) = MapPut(EmptyMap, 2, h.name)

\* The increment function hands out values again: constant, or cyclic.
Repeating(gen) == gen.incrementer.kind \in {"constant", "cyclic"}

\* C33: on a registry whose increment function repeats values, a Next with a
\* name that is not registered gets past the duplicate test whether or not the
\* current value is already a key of valueMap, returns that value and appends
\* one entry for it; so on such a registry written to by Next alone there are
\* as many entries, all of distinct names, as Next calls that were given a
\* fresh name.
C33_RepeatedValueAccepted ==
    [][/\ \A t \in Threads :
             /\ (/\ pc[t] = "next_check" /\ pc'[t] # pc[t]
                 /\ Repeating(g)
                 /\ loc[t].name \notin DOMAIN g.nameMap)
                => (pc'[t] = "next_advance" /\ loc'[t].val = g.current)
             /\ (pc[t] = "next_advance" /\ pc'[t] # pc[t] /\ Repeating(g))
                => (/\ pc'[t] = "next_insert"
                    /\ Values(g') = Append(Values(g), NewValue(loc[t].val, loc[t].name)))
             /\ (pc[t] = "next_insert" /\ pc'[t] # pc[t] /\ Repeating(g))
                => (/\ ret'[t] = Returned("Next", loc[t].name, loc[t].val)
                    /\ Values(g') = Values(g)
                    /\ Len(Values(g')) = Len(Values(committed)) + 1)
       /\ (Repeating(g') /\ writes' \subseteq {"Next"} /\ Quiescent')
          => (/\ Len(Values(g')) = nexts'
              /\ \A i, j \in 1..Len(Values(g')) :
                    i # j => Values(g')[i].name # Values(g')[j].name
              /\ \A t \in Threads : ret'[t].out = "panic" => ret'[t].why = "dupname")]_vars

C33_Witness ==
    /\ ctor = "NewCyclic" /\ Quiescent
    /\ \E t \in Threads : ret[t] = Returned("Next", "c", 0)
    /\ Len(Values(g)) = 3
    /\ Values(g)[1].value = 0 /\ Values(g)[3].value = 0
    /\ Values(g)[1].name # Values(g)[3].name

\* C34: when two goroutines have each made one With call for the same value,
\* registered to no name before, on handles of different names of one
\* registry, then however their steps interleaved one call returned and the
\* other panicked on the value being taken, and the value is a key of valueMap
\* mapped to the name of the call that returned, which is the only name that
\* nameMap maps to it.
C34_ConcurrentWithOneWins ==
    \A t1, t2 \in Threads :
        (/\ t1 # t2 /\ ops = 2
         /\ pc[t1] = "idle" /\ pc[t2] = "idle"
         /\ ret[t1].op = "With" /\ ret[t2].op = "With"
         /\ ret[t1].value = ret[t2].value
         /\ ret[t1].name # ret[t2].name
         /\ ret[t1].value \notin DOMAIN NextSeq(NextSeq(NewNumeric(0), "a"), "b").valueMap)
        => \E w, l \in {t1, t2} :
              /\ w # l
              /\ ret[w] = Returned("With", ret[w].name, ret[w].value)
              /\ ret[l] = Panicked("With", "dupvalue", ret[l].name, ret[l].value)
              /\ ret[w].value \in DOMAIN g.valueMap
              /\ g.valueMap[ret[w].value] = ret[w].name
              /\ \A n \in DOMAIN g.nameMap :
                    g.nameMap[n] = ret[w].value <=> n = ret[w].name
              /\ mu = Unlocked

C34_Witness ==
    /\ ops = 2
    /\ ret[1] = Panicked("With", "dupvalue", "a", 2)
    /\ ret[2] = Returned("With", "b", 2)
    /\ g.valueMap = MapPut(MapPut(EmptyMap, 0, "a"), 2, "b")
    /\ g.nameMap = MapPut(MapPut(EmptyMap, "a", 0), "b", 2)

\* C35: no step of a With call changes current, nor does a step of a read or
\* any step of a Next that panics; a Next that returns has advanced current
\* once, from the value it returns; and on a NewBasic registry written to by
\* Add and With alone, the Add that returns after k - 1 others returns k - 1.
C35_CurrentFrame ==
    [][\A t \in Threads :
          /\ (pc'[t] # pc[t] /\ {pc[t], pc'[t]} \cap {"with_check", "with_insert", "read"} # {})
             => g'.current = g.current
          /\ (pc[t] \in NextPcs /\ pc'[t] = "idle" /\ ret'[t].out = "panic")
             => (g'.current = g.current /\ pc[t] # "next_insert")
          /\ (pc[t] \in NextPcs /\ pc'[t] # pc[t] /\ g'.current # g.current)
             => (pc[t] = "next_advance" /\ pc'[t] = "next_insert")
          /\ (pc[t] = "next_insert" /\ pc'[t] = "idle")
             => (/\ ret'[t].out = "ok"
                 /\ committed.current = ret'[t].value
                 /\ g'.current = ApplyInc(g.incrementer, ret'[t].value))
          /\ (/\ pc[t] = "next_insert" /\ pc'[t] = "idle"
              /\ ctor = "NewBasic" /\ writes \subseteq {"Next", "With"})
             => (ret'[t].value = nexts /\ nexts' = nexts + 1)]_vars

C35_Witness ==
    /\ ctor = "NewBasic" /\ nexts = 2
    /\ ret[1] = Returned("With", "a", 2)
    /\ ret[2] = Returned("Next", "b", 1)
    /\ g.current = 2
    /\ Values(g) = <<NewValue(0, "a"), NewValue(2, "a"), NewValue(1, "b")>>

\* C36: the value of the Basic that an Add returns was not a key of valueMap
\* when the call took the lock, whatever With calls were made before.
C36_AddHandsOutUnregisteredValue ==
    [][\A t \in Threads :
          (/\ pc[t] = "next_insert" /\ pc'[t] = "idle"
           /\ ctor = "NewBasic" /\ writes \subseteq {"Next", "With"})
          => (/\ ret'[t].out = "ok"
              /\ Basic(ret'[t].name, ret'[t].value) \in handles'
              /\ ret'[t].value \notin DOMAIN committed.valueMap)]_vars

\* C37: whenever no call is in the middle of its update, every (value, name)
\* pair of valueMap is an entry of Values(), so that Names() lists every name
\* valueMap holds and Values() is at least as long as ValueMap().
C37_EveryPairHasEntry ==
    Quiescent
    => (/\ \A v \in DOMAIN ValueMap(g) :
              \E i \in 1..Len(Values(g)) : Values(g)[i] = NewValue(v, ValueMap(g)[v])
        /\ \A v \in DOMAIN ValueMap(g) :
              \E i \in 1..Len(GenNames(g)) : GenNames(g)[i] = ValueMap(g)[v]
        /\ Len(Values(g)) >= Cardinality(DOMAIN ValueMap(g)))

\* C38: With(v) panics whenever v is a key of valueMap when the call tests it,
\* be it registered to another name or to the receiver's own, With(Get()) of
\* a registered Basic included; the step in which it panics changes no field
\* of the registry, which is as it was when the call took the lock, and
\* releases the lock.
C38_WithTakenValuePanics ==
    [][\A t \in Threads :
          (/\ pc[t] = "with_check"
           /\ pc'[t] # pc[t]
           /\ Contains(g, loc[t].val))
          => (/\ pc'[t] = "idle"
              /\ ret'[t] = Panicked("With", "dupvalue", loc[t].h.name, loc[t].val)
              /\ g' = g
              /\ g' = committed
              /\ mu'.writers = {})]_vars

C38_Witness ==
    \E t \in Threads :
        /\ ret[t].op = "With" /\ ret[t].out = "panic"
        /\ Basic(ret[t].name, ret[t].value) \in handles
        /\ Name(g, ret[t].value) = <<ret[t].name, TRUE>>
        /\ Get(g, ret[t].name) = <<ret[t].value, TRUE>>
        /\ Len(Values(g)) = 1

\* What a registry holds apart from its counter.
Content(gen) == <<gen.valueMap, gen.nameMap, gen.values, gen.incrementer>>

\* C39: with Next and UnmarshalJSON called by concurrent goroutines, the
\* UnmarshalJSON that returns leaves what it leaves in a registry nothing was
\* ever added to; from then on no step of a Next changes the registry, and
\* every Next still under way panics, be it at the nil test made before the
\* lock or at the call of the nil increment function under it; a Next that
\* panics has changed nothing in any of its steps, and a Next that returns a
\* value did all its writes on a registry not yet deserialized into; so once
\* all calls have finished the content is that of one of the documents.
C39_NoNextAfterUnmarshal ==
    [][/\ \A t \in Threads :
             /\ (pc[t] = "unmarshal_decode" /\ pc'[t] = "idle")
                => Content(g') = Content(UnmarshalJSON(ZeroGenerator, loc[t].doc).gen)
             /\ (pc[t] \in NextPcs /\ pc'[t] # pc[t] /\ IsStatic(g))
                => (g' = g /\ (pc'[t] = "idle" => ret'[t].out = "panic"))
             /\ (pc[t] \in NextPcs /\ pc'[t] = "idle" /\ ret'[t].out = "panic")
                => (g' = g /\ pc[t] \in {"next_nilcheck", "next_check", "next_advance"})
             /\ (pc[t] \in {"next_nilcheck", "next_lock", "next_check"} /\ pc'[t] # pc[t])
                => g' = g
             /\ (pc[t] \in {"next_advance", "next_insert"} /\ pc'[t] # pc[t] /\ g' # g)
                => ~IsStatic(g)
       /\ (/\ \A t \in Threads : pc'[t] = "idle"
           /\ writes' = {"Next", "Unmarshal"}
           /\ \E t \in Threads : ret'[t].op = "Unmarshal")
          => \E data \in JsonInputs :
                Content(g') = Content(UnmarshalJSON(ZeroGenerator, data).gen)]_vars

C39_Witness ==
    /\ ctor = "NewBasic"
    /\ ret[1] = Panicked("Next", "nilcall", "b", 0)
    /\ ret[2] = Returned("Unmarshal", "", 0)
    /\ pc = [t \in Threads |-> "idle"]
    /\ nexts = 1
    /\ g.current = 1
    /\ ValueMap(g) = MapPut(EmptyMap, 1, "a")
    /\ Values(g) = << >>

====
